---------------------------- MODULE Spec2Model ----------------------------
(***************************************************************************)
(* Model of the trace analysis of ml-daikon: the span correlator           *)
(* (events_scanner), the containment inference (APIContainRelation.infer   *)
(* and .evaluate), the sequential group scanner (Trace.scan_to_groups),    *)
(* the flattening of nested records (unnest_all) and the tracer's wrapper  *)
(* of instrumented functions (global_wrapper).                             *)
(***************************************************************************)
EXTENDS Integers, Sequences, FiniteSets, Bags, TLC

(***************************************************************************)
(* Bounds of the model.                                                    *)
(***************************************************************************)
MaxViewLen == 3
MaxTraceLen == 4
MaxArgs == 3
MaxEvents == 4
MaxSelectors == 2

(***************************************************************************)
(* Event records, as the tracer writes them and the analysis reads them.   *)
(***************************************************************************)
None == "None"
PRE == "function_call (pre)"
POST == "function_call (post)"
STATE_CHANGE == "state_variable_change"

Functions == {"train_step", "forward"}
Uuids == {"1", "2"}
\* <<thread_id, process_id>> of the emitting context
Contexts == {<<1, 1>>, <<2, 1>>, <<1, 2>>}
InferContexts == {<<1, 1>>, <<2, 1>>}

CallEvent(ty, fn, id, ctx) ==
    [type |-> ty, function |-> fn, uuid |-> id,
     thread_id |-> ctx[1], process_id |-> ctx[2]]

StateEvent(ctx) ==
    [type |-> STATE_CHANGE, function |-> None, uuid |-> None,
     thread_id |-> ctx[1], process_id |-> ctx[2]]

EventsOver(ctxs) ==
    {CallEvent(ty, fn, id, c) : ty \in {PRE, POST}, fn \in Functions,
                                id \in Uuids, c \in ctxs}
    \cup {StateEvent(c) : c \in ctxs}

SeqsUpTo(S, n) == UNION {[1..k -> S] : k \in 0..n}

(***************************************************************************)
(* State.                                                                  *)
(***************************************************************************)
VARIABLES
    trace,      \* the events of the trace (or of the view given to events_scanner)
    scanOut,    \* the call of events_scanner made on the view, and what it gave
    inferOut,   \* what the last call of infer on the trace gave
    inferPrev,  \* what the call of infer before that one gave
    value_group,            \* the argument given to evaluate
    evalOut,                \* what evaluate gave for it
    param_selectors,        \* scan_to_groups: the selectors given
    curr_param_selector,    \* its cursor: the place of the current selector in
                            \* param_selectors, 0 when the iterator gave None
    group,                  \* its accumulator
    groups,                 \* the groups it has emitted
    pos,                    \* the number of events its loop has taken
    pc,                     \* where the call of scan_to_groups stands
    df,         \* unnest_all: the schema of the table given (columns in order)
    separator,  \* its separator
    unnestOut,  \* what unnest_all gave, and what it gave on its own result
    log,        \* tracer: the events logger_trace has written, in order
    stack,      \* per thread, the calls of global_wrapper under way, innermost last
    pending,    \* per thread, the exception on its way up, NoException when none is
    finished,   \* the calls of global_wrapper that have ended, each with how it ended
    n_calls,    \* the number of calls of global_wrapper made so far
    model,          \* StateVarObserver: the parameters of the model, by name
    current_state,  \* its snapshot of them (self.current_state)
    hasChangedOut,  \* what the last call of has_changed gave
    updated,        \* whether the model was updated since that call
    attrs,                  \* instrumentor: the attributes of each module and class
    instrumented_modules,   \* the global set of that name
    skipped_modules,        \* the global set of that name
    frames,                 \* the calls of _instrument under way, innermost last
    traversals,             \* how many times the attributes of each target were gone through
    instrumentOut,          \* the calls of instrument() made so far, and what the last gave
    init_stack,     \* init_wrapper: the calls of wrapped_init under way on the object
    hook_ran,       \* whether the object has the attribute _post_init_hook_ran
    hook_log,       \* the post_init_hook records logged
    init_wraps,     \* how many times the __init__ of each class was wrapped
    constructOut    \* where the construction of the object stands

inferVars == <<scanOut, inferOut, inferPrev>>
evalVars == <<value_group, evalOut>>
scanVars == <<param_selectors, curr_param_selector, group, groups, pos, pc>>
flattenVars == <<df, separator, unnestOut>>
tracerVars == <<log, stack, pending, finished, n_calls>>
observerVars == <<model, current_state, hasChangedOut, updated>>
instrumentVars == <<attrs, instrumented_modules, skipped_modules, frames,
                    traversals, instrumentOut>>
constructVars == <<init_stack, hook_ran, hook_log, init_wraps, constructOut>>
hookVars == <<observerVars, instrumentVars, constructVars>>
vars == <<trace, inferVars, evalVars, scanVars, flattenVars, tracerVars, hookVars>>

Idle == [status |-> "idle"]

\* the parts of the state a specification leaves untouched
NoInfer == scanOut = Idle /\ inferOut = Idle /\ inferPrev = Idle
NoEvaluate == value_group = <<>> /\ evalOut = Idle
NoScan ==
    /\ param_selectors = <<>>
    /\ curr_param_selector = 0
    /\ group = <<>>
    /\ groups = <<>>
    /\ pos = 0
    /\ pc = "idle"
NoFlatten == df = <<>> /\ separator = "." /\ unnestOut = Idle
NoTracer ==
    /\ log = <<>>
    /\ stack = <<>>
    /\ pending = <<>>
    /\ finished = {}
    /\ n_calls = 0
NoObserver ==
    /\ model = <<>>
    /\ current_state = <<>>
    /\ hasChangedOut = Idle
    /\ updated = FALSE
NoInstrument ==
    /\ attrs = <<>>
    /\ instrumented_modules = {}
    /\ skipped_modules = {}
    /\ frames = <<>>
    /\ traversals = <<>>
    /\ instrumentOut = Idle
NoConstruct ==
    /\ init_stack = <<>>
    /\ hook_ran = FALSE
    /\ hook_log = <<>>
    /\ init_wraps = <<>>
    /\ constructOut = Idle
NoHooks == NoObserver /\ NoInstrument /\ NoConstruct

(***************************************************************************)
(* events_scanner(trace_df, parent_func_name)                              *)
(***************************************************************************)
\* the test of thread_id left out
SameContext_ProcessOnly(e, first) == e.process_id = first.process_id

SameContext(e, first) ==
    e.process_id = first.process_id /\ e.thread_id = first.thread_id

\* pl.arg_where(pl.col("uuid") == uuid): a null never compares equal
ArgWhereUuid(trace_df, uuid) ==
    {k \in 1..Len(trace_df) : uuid # None /\ trace_df[k].uuid = uuid}

SetMin(S) == CHOOSE x \in S : \A y \in S : x <= y

\* post_idx[1]: the second row, in row order, that carries the uuid
SecondOf(S) == SetMin(S \ {SetMin(S)})

\* the filter with the process_id test left out
SliceFunctions_ThreadOnly(trace_df, post_idx, first) ==
    {trace_df[k].function :
        k \in {i \in 1..(post_idx - 1) : trace_df[i].thread_id = first.thread_id}}

\* the rows after the entry only
SliceFunctions_AfterEntry(trace_df, post_idx, first) ==
    {trace_df[k].function :
        k \in {i \in 2..(post_idx - 1) : SameContext(trace_df[i], first)}}

\* the entry row only
SliceFunctions_EntryOnly(trace_df, post_idx, first) == {first.function}

\* trace_df.slice(0, post_idx).filter(process_id, thread_id).select("function").unique()
SliceFunctions(trace_df, post_idx, first) ==
    {trace_df[k].function :
        k \in {i \in 1..(post_idx - 1) : SameContext(trace_df[i], first)}}

ReturnedNone(why) == [status |-> "None", error |-> why, names |-> {}]
Raised(why) == [status |-> "raised", error |-> why, names |-> {}]
ReturnedSet(S) == [status |-> "set", error |-> "", names |-> S]

\* the first record tested for its function only, not for its type
events_scanner_FunctionOnly(trace_df, parent_func_name) ==
    IF Len(trace_df) = 0 THEN Raised("row-out-of-bounds")
    ELSE
    LET first_record == trace_df[1]
        post_idx == ArgWhereUuid(trace_df, first_record.uuid)
        num_records == Cardinality(post_idx) - 1
    IN  IF first_record.function # parent_func_name
        THEN ReturnedNone("not-a-call-entry")
        ELSE IF num_records = 0
        THEN ReturnedNone("missing-exit")
        ELSE IF num_records # 1
        THEN Raised("duplicate-exit")
        ELSE IF ~SameContext(trace_df[SecondOf(post_idx)], first_record)
        THEN Raised("cross-context-correlation")
        ELSE ReturnedSet(SliceFunctions(trace_df, SecondOf(post_idx), first_record))

events_scanner(trace_df, parent_func_name) ==
    IF Len(trace_df) = 0 THEN Raised("row-out-of-bounds")
    ELSE
    LET first_record == trace_df[1]
        post_idx == ArgWhereUuid(trace_df, first_record.uuid)
        num_records == Cardinality(post_idx) - 1
    IN  IF first_record.function # parent_func_name \/ first_record.type # PRE
        THEN ReturnedNone("not-a-call-entry")
        ELSE IF num_records = 0
        THEN ReturnedNone("missing-exit")
        ELSE IF num_records # 1
        THEN Raised("duplicate-exit")
        ELSE IF ~SameContext(trace_df[SecondOf(post_idx)], first_record)
        THEN Raised("cross-context-correlation")
        ELSE ReturnedSet(SliceFunctions(trace_df, SecondOf(post_idx), first_record))

(***************************************************************************)
(* APIContainRelation.infer(trace)                                         *)
(***************************************************************************)
\* trace.events.select("function").drop_nulls().unique(): the distinct names
FuncNameSet(events) ==
    {events[k].function : k \in 1..Len(events)} \ {None}

\* .unique().to_series().to_list() fixes no order: any enumeration can come out
Enumerations(S) ==
    {s \in [1..Cardinality(S) -> S] : \A i, j \in DOMAIN s : s[i] = s[j] => i = j}

\* the rows of the parent whatever their type
ParentPreIdx_AnyType(events, parent) ==
    {k \in 1..Len(events) : events[k].function = parent}

\* pl.arg_where((type == "function_call (pre)") & (function == parent))
ParentPreIdx(events, parent) ==
    {k \in 1..Len(events) : events[k].type = PRE /\ events[k].function = parent}

\* trace.events.slice(idx, None)
SliceFrom(events, idx) == SubSeq(events, idx, Len(events))

\* child_func_names of each invocation, by the index of its pre event
AllChildFuncNames(events, parent) ==
    [idx \in ParentPreIdx(events, parent) |->
        events_scanner(SliceFrom(events, idx), parent)]

\* the names of the first invocation only
UniqueSeenChildFuncNames_FirstOnly(all_child_func_names) ==
    IF DOMAIN all_child_func_names = {} THEN {}
    ELSE all_child_func_names[SetMin(DOMAIN all_child_func_names)].names

\* every operation name taken as a child seen
UniqueSeenChildFuncNames_EveryName(all_child_func_names) == Functions

\* set([item for sublist in all_child_func_names for item in sublist])
UniqueSeenChildFuncNames(all_child_func_names) ==
    UNION {all_child_func_names[idx].names : idx \in DOMAIN all_child_func_names}

\* every invocation taken as a positive example
Examples_AllPositive(events, all_child_func_names, child, positive) ==
    LET Keep(k) == k \in DOMAIN all_child_func_names /\ positive
    IN  SelectSeq([k \in 1..Len(events) |-> k], Keep)

\* each invocation put in the other list
Examples_Swapped(events, all_child_func_names, child, positive) ==
    LET Keep(k) == /\ k \in DOMAIN all_child_func_names
                   /\ (child \in all_child_func_names[k].names) # positive
    IN  SelectSeq([k \in 1..Len(events) |-> k], Keep)

\* the pre events (by index, in row order) appended to one example list
Examples(events, all_child_func_names, child, positive) ==
    LET Keep(k) == /\ k \in DOMAIN all_child_func_names
                   /\ (child \in all_child_func_names[k].names) = positive
    IN  SelectSeq([k \in 1..Len(events) |-> k], Keep)

\* the lambda of param_selectors reads the variable parent of the frame of
\* infer when it is called: binding names that variable's value by then
Invariant(parent, child, binding) ==
    [relation |-> "APIContainRelation",
     param_selectors |->
        <<[literal |-> child],
          [lambda |-> "events_scanner", parent_func_name |-> binding]>>,
     precondition |-> None,
     built_for |-> parent]

\* hypothesis[parent]: one Hypothesis per child seen, with its two example lists
ParentHypotheses(events, parent, all_child_func_names, binding) ==
    [child \in UniqueSeenChildFuncNames(all_child_func_names) |->
        [invariant |-> Invariant(parent, child, binding),
         positive_examples |-> Examples(events, all_child_func_names, child, TRUE),
         negative_examples |-> Examples(events, all_child_func_names, child, FALSE)]]

\* scanned: the calls of events_scanner made by then, each by the parent
\* of its round and the row of the pre event its view starts at
InferRaised(exc, why, scanned) ==
    [status |-> "raised", exception |-> exc, error |-> why,
     hypothesis |-> <<>>, all_invariants |-> EmptyBag, scanned |-> scanned]

\* for h in child_hypotheses.values(): all_invariants.append(h.invariant)
AllInvariants(hypothesis) ==
    LET keys == {<<p, c>> : p \in DOMAIN hypothesis, c \in Functions \cup {None}}
        real == {k \in keys : k[2] \in DOMAIN hypothesis[k[1]]}
        invs == {hypothesis[k[1]][k[2]].invariant : k \in real}
    IN  [inv \in invs |->
            Cardinality({k \in real : hypothesis[k[1]][k[2]].invariant = inv})]

\* child_func_names: what each of those calls of events_scanner returned
InferReturned(hypothesis, scanned, child_func_names) ==
    [status |-> "returned", exception |-> "", error |-> "",
     hypothesis |-> hypothesis, all_invariants |-> AllInvariants(hypothesis),
     scanned |-> scanned, child_func_names |-> child_func_names]

\* the value the variable parent holds once the loop is over
FinalParent(func_names) == func_names[Len(func_names)]

\* for idx in parent_pre_idx: events_scanner(trace.events.slice(idx, None), parent)
\* the calls made in the rounds before the i-th, and in the i-th up to row last
ScannerCalls(events, func_names, i, last) ==
    UNION {{<<func_names[j], idx>> : idx \in ParentPreIdx(events, func_names[j])} :
              j \in 1..(i - 1)}
    \cup IF i \in DOMAIN func_names
         THEN {<<func_names[i], idx>> :
                  idx \in {k \in ParentPreIdx(events, func_names[i]) : k <= last}}
         ELSE {}

RECURSIVE InferLoop(_, _, _, _)
\* for parent in func_names: ... (the i-th round, hypothesis built so far)
InferLoop(events, func_names, i, hypothesis) ==
    IF i > Len(func_names)
    THEN InferReturned(hypothesis, ScannerCalls(events, func_names, i, 0),
             [call \in ScannerCalls(events, func_names, i, 0) |->
                 AllChildFuncNames(events, call[1])[call[2]].names])
    ELSE
    LET parent == func_names[i]
        all_child_func_names == AllChildFuncNames(events, parent)
        failed == {idx \in DOMAIN all_child_func_names :
                      all_child_func_names[idx].status # "set"}
        bad == all_child_func_names[SetMin(failed)]
        scanned == ScannerCalls(events, func_names, i, SetMin(failed))
    IN  IF failed # {}
        THEN IF bad.status = "None"
             THEN InferRaised("ValueError", bad.error, scanned)
             ELSE InferRaised("AssertionError", bad.error, scanned)
        ELSE InferLoop(events, func_names, i + 1,
                 hypothesis @@
                 (parent :> ParentHypotheses(events, parent, all_child_func_names,
                                             FinalParent(func_names))))

infer(events, func_names) == InferLoop(events, func_names, 1, <<>>)

\* param_selectors[1](trace_df): the lambda, called after infer has returned
ApplySelector(selector, trace_df) ==
    events_scanner(trace_df, selector.parent_func_name)

(***************************************************************************)
(* APIContainRelation.evaluate(value_group)                                *)
(***************************************************************************)
\* Python values an argument list can hold, by type
PyStr(s) == [type |-> "str", str |-> s, items |-> {}]
PySet(S) == [type |-> "set", str |-> "", items |-> S]
PyList(S) == [type |-> "list", str |-> "", items |-> S]
PyInt == [type |-> "int", str |-> "", items |-> {}]
PyNone == [type |-> "NoneType", str |-> "", items |-> {}]

PyValues ==
    {PyStr(s) : s \in Functions} \cup {PySet(S) : S \in SUBSET Functions}
    \cup {PyList(S) : S \in SUBSET Functions} \cup {PyInt, PyNone}

EvalReturned(b) == [status |-> "returned", value |-> b, error |-> ""]
EvalRaised(why) == [status |-> "raised", value |-> FALSE, error |-> why]

\* the third assertion left out: any collection is taken
evaluate_AnyCollection(args) ==
    IF Len(args) # 2 THEN EvalRaised("Expected 2 arguments")
    ELSE IF args[1].type # "str"
    THEN EvalRaised("Expected the first argument to be a string")
    ELSE EvalReturned(args[1].str \in args[2].items)

evaluate(args) ==
    IF Len(args) # 2 THEN EvalRaised("Expected 2 arguments")
    ELSE IF args[1].type # "str"
    THEN EvalRaised("Expected the first argument to be a string")
    ELSE IF args[2].type # "set"
    THEN EvalRaised("Expected the second argument to be a set")
    ELSE EvalReturned(args[1].str \in args[2].items)

(***************************************************************************)
(* Trace.scan_to_groups(param_selectors)                                   *)
(***************************************************************************)
\* a selector is a value, or a function of one event that gives a value or None
Literal(v) == [kind |-> "literal", arg |-> v]
IsEntered(fn) == [kind |-> "extractor", arg |-> fn]

Selectors == {Literal("x")} \cup {IsEntered(fn) : fn \in Functions}

\* callable(curr_param_selector)
Callable(selector) == selector.kind = "extractor"

\* curr_param_selector(e) is not None: the event enters the function
Matches(selector, e) == e.type = PRE /\ e.function = selector.arg

\* curr_param_selector(e), when it is not None: the event itself
Extract(selector, e) == e

\* what is appended to group: the value, with the row it was extracted from
\* (0 for a literal) and the place of the selector that gave it
Element(v, row, k) == [value |-> v, row |-> row, selector |-> k]

\* next(param_selector_itr, None) once k selectors have been taken
NextSelector(selectors, k) == IF k < Len(selectors) THEN k + 1 ELSE 0

\* elif not callable(curr_param_selector): group.append(curr_param_selector)
AppendLiteral(selectors, k, acc) ==
    [group |-> Append(acc, Element([literal |-> selectors[k].arg], 0, k)),
     curr_param_selector |-> k]

LeftOver_Never(selectors, acc, emitted) == emitted

LeftOver_Always(selectors, acc, emitted) ==
    IF Len(acc) > 0 THEN Append(emitted, acc) ELSE emitted

\* if len(group) == len(param_selectors): groups.append(group)
LeftOver(selectors, acc, emitted) ==
    IF Len(acc) = Len(selectors) THEN Append(emitted, acc) ELSE emitted

\* the iterator is made and its first selector taken; an empty list fails
ScanStart ==
    /\ pc = "idle"
    /\ pc' = IF param_selectors = <<>> THEN "raised" ELSE "loop"
    /\ curr_param_selector' = NextSelector(param_selectors, 0)
    /\ group' = <<>>
    /\ groups' = <<>>
    /\ pos' = 0
    /\ UNCHANGED <<trace, hookVars, flattenVars, tracerVars, inferVars, evalVars, param_selectors>>

\* (the items the loop takes from self.events are read as the events, in
\* trace order; pos counts those already taken)
\* for e in self.events: if curr_param_selector is None
ScanRestart ==
    /\ pc = "loop" /\ pos < Len(trace)
    /\ curr_param_selector = 0
    /\ groups' = Append(groups, group)
    /\ group' = <<>>
    /\ curr_param_selector' = NextSelector(param_selectors, 0)
    /\ pos' = pos + 1
    /\ UNCHANGED <<trace, hookVars, flattenVars, tracerVars, inferVars, evalVars, param_selectors, pc>>

\* for e in self.events: elif not callable(curr_param_selector)
ScanLiteral ==
    /\ pc = "loop" /\ pos < Len(trace)
    /\ curr_param_selector # 0
    /\ ~Callable(param_selectors[curr_param_selector])
    /\ LET after == AppendLiteral(param_selectors, curr_param_selector, group)
       IN  /\ group' = after.group
           /\ curr_param_selector' = after.curr_param_selector
    /\ pos' = pos + 1
    /\ UNCHANGED <<trace, hookVars, flattenVars, tracerVars, inferVars, evalVars, param_selectors, groups, pc>>

\* the event that matched is not consumed
ScanExtract_SameEvent ==
    /\ pc = "loop" /\ pos < Len(trace)
    /\ curr_param_selector # 0
    /\ Callable(param_selectors[curr_param_selector])
    /\ Matches(param_selectors[curr_param_selector], trace[pos + 1])
    /\ group' = Append(group,
                       Element(Extract(param_selectors[curr_param_selector],
                                       trace[pos + 1]),
                               pos + 1, curr_param_selector))
    /\ curr_param_selector' = NextSelector(param_selectors, curr_param_selector)
    /\ UNCHANGED <<trace, hookVars, flattenVars, tracerVars, inferVars, evalVars,
                   param_selectors, groups, pc, pos>>

\* for e in self.events: elif curr_param_selector(e)
ScanExtract ==
    /\ pc = "loop" /\ pos < Len(trace)
    /\ curr_param_selector # 0
    /\ Callable(param_selectors[curr_param_selector])
    /\ Matches(param_selectors[curr_param_selector], trace[pos + 1])
    /\ group' = Append(group,
                       Element(Extract(param_selectors[curr_param_selector],
                                       trace[pos + 1]),
                               pos + 1, curr_param_selector))
    /\ curr_param_selector' = NextSelector(param_selectors, curr_param_selector)
    /\ pos' = pos + 1
    /\ UNCHANGED <<trace, hookVars, flattenVars, tracerVars, inferVars, evalVars, param_selectors, groups, pc>>

\* for e in self.events: no branch taken, the event is passed
ScanPass ==
    /\ pc = "loop" /\ pos < Len(trace)
    /\ curr_param_selector # 0
    /\ Callable(param_selectors[curr_param_selector])
    /\ ~Matches(param_selectors[curr_param_selector], trace[pos + 1])
    /\ pos' = pos + 1
    /\ UNCHANGED <<trace, hookVars, flattenVars, tracerVars, inferVars, evalVars, param_selectors,
                   curr_param_selector, group, groups, pc>>

\* the loop is over: the left-over group, and return groups
ScanReturn ==
    /\ pc = "loop" /\ pos = Len(trace)
    /\ groups' = LeftOver(param_selectors, group, groups)
    /\ pc' = "returned"
    /\ UNCHANGED <<trace, hookVars, flattenVars, tracerVars, inferVars, evalVars, param_selectors,
                   curr_param_selector, group, pos>>

(***************************************************************************)
(* Specification of the span correlator alone: any view, any target.       *)
(***************************************************************************)
InitScanner ==
    /\ trace \in SeqsUpTo(EventsOver(Contexts), MaxViewLen)
    /\ NoInfer /\ NoEvaluate /\ NoScan /\ NoFlatten /\ NoTracer /\ NoHooks

CallEventsScanner ==
    /\ scanOut = Idle
    /\ \E p \in Functions :
          scanOut' = [status |-> "done", parent_func_name |-> p,
                      result |-> events_scanner(trace, p)]
    /\ UNCHANGED <<trace, hookVars, flattenVars, tracerVars, inferOut, inferPrev, evalVars, scanVars>>

NextScanner == CallEventsScanner

SpecScanner == InitScanner /\ [][NextScanner]_vars

(***************************************************************************)
(* What the claims speak of, read off the trace by position.               *)
(***************************************************************************)
\* the rows other than row i that carry the correlation id of row i
OthersWithId(events, i) ==
    {k \in 1..Len(events) :
        k # i /\ events[i].uuid # None /\ events[k].uuid = events[i].uuid}

IsCallEntered(events, i, P) ==
    events[i].type = PRE /\ events[i].function = P

\* row j is the matching exit of the entry at row i
IsMatchingExit(events, i, j) ==
    /\ j > i
    /\ {k \in OthersWithId(events, i) : k > i} = {j}
    /\ events[j].thread_id = events[i].thread_id
    /\ events[j].process_id = events[i].process_id

\* the function fields of the rows in [i, j) of the thread and process of row i
NamesInSpan(events, i, j) ==
    {events[k].function :
        k \in {r \in i..(j - 1) : /\ events[r].thread_id = events[i].thread_id
                                  /\ events[r].process_id = events[i].process_id}}

\* the nested-operation set of the invocation entered at row i
NestedOperationSet(events, i) ==
    UNION {NamesInSpan(events, i, j) :
              j \in {r \in 1..Len(events) : IsMatchingExit(events, i, r)}}

\* the names that rows [i, j) carry only in another thread or process
OnlyElsewhere(events, i, j) ==
    {n \in Functions :
        /\ \E k \in i..(j - 1) : events[k].function = n
        /\ \A k \in i..(j - 1) :
              events[k].function = n =>
                 \/ events[k].thread_id # events[i].thread_id
                 \/ events[k].process_id # events[i].process_id}

ScenarioA ==
    << CallEvent(PRE, "train_step", "1", <<1, 1>>),
       CallEvent(PRE, "forward", "2", <<1, 1>>),
       CallEvent(POST, "forward", "2", <<1, 1>>),
       CallEvent(POST, "train_step", "1", <<1, 1>>),
       CallEvent(PRE, "train_step", "3", <<1, 1>>),
       CallEvent(POST, "train_step", "3", <<1, 1>>) >>

\* The analysis only compares correlation ids and thread ids for equality:
\* the traces are taken with the ids named in the order of their first use.
InOrderOfFirstUse(events) ==
    \A k \in 1..Len(events) :
        /\ events[k].uuid = "2" => \E j \in 1..(k - 1) : events[j].uuid = "1"
        /\ events[k].thread_id = 2 => \E j \in 1..(k - 1) : events[j].thread_id = 1

InitInfer ==
    /\ \/ \E n \in 0..MaxTraceLen :
             /\ trace \in [1..n -> EventsOver(InferContexts)]
             /\ InOrderOfFirstUse(trace) = TRUE
       \/ trace = ScenarioA
    /\ NoInfer /\ NoEvaluate /\ NoScan /\ NoFlatten /\ NoTracer /\ NoHooks

CallInfer ==
    /\ inferOut = Idle
    /\ \E func_names \in Enumerations(FuncNameSet(trace)) :
          inferOut' = infer(trace, func_names)
    /\ UNCHANGED <<trace, hookVars, flattenVars, tracerVars, scanOut, inferPrev, evalVars, scanVars>>

\* a second call on the same trace; what the first gave is kept in inferPrev
CallInferAgain ==
    /\ inferOut # Idle /\ inferPrev = Idle
    /\ \E func_names \in Enumerations(FuncNameSet(trace)) :
          inferOut' = infer(trace, func_names)
    /\ inferPrev' = inferOut
    /\ UNCHANGED <<trace, hookVars, flattenVars, tracerVars, scanOut, evalVars, scanVars>>

NextInfer == CallInfer

SpecInfer == InitInfer /\ [][NextInfer]_vars

NextInferTwice == CallInfer \/ CallInferAgain

SpecInferTwice == InitInfer /\ [][NextInferTwice]_vars

(***************************************************************************)
(* Specification of the span correlator and of infer on the same events:   *)
(* any events, of any thread and process, that begin at a pre event; they  *)
(* are given to events_scanner as its view and to infer as its trace.      *)
(***************************************************************************)
InitCorrelate ==
    /\ \E n \in 1..MaxViewLen :
          /\ trace \in [1..n -> EventsOver(Contexts)]
          /\ (trace[1].type = PRE) = TRUE
    /\ NoInfer /\ NoEvaluate /\ NoScan /\ NoFlatten /\ NoTracer /\ NoHooks

NextCorrelate == CallEventsScanner \/ CallInfer

SpecCorrelate == InitCorrelate /\ [][NextCorrelate]_vars

(***************************************************************************)
(* C2: malformed-trace rejection. When the correlation id of some          *)
(* CallEntered event is carried by no other event, or by two or more other *)
(* events, anywhere in the trace, infer raises and returns no invariants.  *)
(* (The class of the error raised is not modelled: only that one is.)      *)
(***************************************************************************)
MalformedEntry(events, i) ==
    events[i].type = PRE /\ Cardinality(OthersWithId(events, i)) # 1

C2_MalformedTraceRejected ==
    (/\ inferOut.status # "idle"
     /\ \E i \in 1..Len(trace) : MalformedEntry(trace, i))
    => /\ inferOut.status = "raised"
       /\ inferOut.all_invariants = EmptyBag

(***************************************************************************)
(* C3: Scenario A. As claimed: infer returns exactly one invariant, the    *)
(* one for (train_step contains forward), with one positive example (the   *)
(* first invocation) and one negative example (the second).                *)
(***************************************************************************)
HypothesisKeys(out) ==
    {<<p, c>> \in (Functions \X (Functions \cup {None})) :
        p \in DOMAIN out.hypothesis /\ c \in DOMAIN out.hypothesis[p]}

ScenarioA_Evidence(out) ==
    /\ <<"train_step", "forward">> \in HypothesisKeys(out)
    /\ out.hypothesis["train_step"]["forward"].positive_examples = <<1>>
    /\ out.hypothesis["train_step"]["forward"].negative_examples = <<5>>

C3_ScenarioA_OneInvariant ==
    (trace = ScenarioA /\ inferOut.status # "idle")
    => /\ inferOut.status = "returned"
       /\ BagCardinality(inferOut.all_invariants) = 1
       /\ HypothesisKeys(inferOut) = {<<"train_step", "forward">>}
       /\ ScenarioA_Evidence(inferOut)

(***************************************************************************)
(* C3, amended: on Scenario A infer returns exactly three invariants, for  *)
(* (train_step contains train_step), (train_step contains forward) and     *)
(* (forward contains forward); the hypothesis of (train_step contains      *)
(* forward) has exactly one positive example, the first invocation, and    *)
(* exactly one negative example, the second invocation.                    *)
(***************************************************************************)
C3_ScenarioA_ThreeInvariants ==
    (trace = ScenarioA /\ inferOut.status # "idle")
    => /\ inferOut.status = "returned"
       /\ BagCardinality(inferOut.all_invariants) = 3
       /\ HypothesisKeys(inferOut) =
             {<<"train_step", "train_step">>, <<"train_step", "forward">>,
              <<"forward", "forward">>}
       /\ {inv.built_for : inv \in BagToSet(inferOut.all_invariants)}
             = {"train_step", "forward"}
       /\ ScenarioA_Evidence(inferOut)

C3_Witness ==
    trace = ScenarioA /\ inferOut.status = "returned"

(***************************************************************************)
(* C4: hypotheses built. On a well-formed trace infer returns, and for     *)
(* every parent P with a CallEntered event it has built exactly one        *)
(* hypothesis per C in the union of the nested-operation sets of the       *)
(* invocations of P, with first selector the literal C and no              *)
(* precondition; the returned list holds exactly these invariants, once.   *)
(***************************************************************************)
\* every entry has its one exit, later, of the same function, thread and
\* process, and no other row carries their correlation id
WellFormed(events) ==
    \A i \in 1..Len(events) :
        /\ events[i].type = PRE =>
              \E j \in 1..Len(events) :
                  /\ IsMatchingExit(events, i, j)
                  /\ OthersWithId(events, i) = {j}
                  /\ events[j].type = POST
                  /\ events[j].function = events[i].function
        /\ events[i].type = POST =>
              \E j \in 1..(i - 1) :
                  events[j].type = PRE /\ events[j].uuid = events[i].uuid

Invocations(events, P) ==
    {i \in 1..Len(events) : IsCallEntered(events, i, P)}

Parents(events) == {P \in Functions : Invocations(events, P) # {}}

CandidateChildSet(events, P) ==
    UNION {NestedOperationSet(events, i) : i \in Invocations(events, P)}

CandidatePairs(events) ==
    {<<P, C>> \in (Functions \X (Functions \cup {None})) :
        P \in Parents(events) /\ C \in CandidateChildSet(events, P)}

Occurrences(seq, x) == Cardinality({n \in DOMAIN seq : seq[n] = x})

C5_EvidenceClassification ==
    inferOut.status = "returned" =>
        \A k \in HypothesisKeys(inferOut) :
            LET h == inferOut.hypothesis[k[1]][k[2]]
            IN  \A i \in 1..Len(trace) :
                   /\ Occurrences(h.positive_examples, i) =
                         IF /\ i \in Invocations(trace, k[1])
                            /\ k[2] \in NestedOperationSet(trace, i)
                         THEN 1 ELSE 0
                   /\ Occurrences(h.negative_examples, i) =
                         IF /\ i \in Invocations(trace, k[1])
                            /\ k[2] \notin NestedOperationSet(trace, i)
                         THEN 1 ELSE 0

\* a hypothesis with both a positive and a negative example, beside another parent
C5_Witness ==
    /\ inferOut.status = "returned"
    /\ Cardinality(Parents(trace)) = 2
    /\ \E k \in HypothesisKeys(inferOut) :
          /\ inferOut.hypothesis[k[1]][k[2]].positive_examples # <<>>
          /\ inferOut.hypothesis[k[1]][k[2]].negative_examples # <<>>

(***************************************************************************)
(* C6: after infer returns on a trace with two or more parents, the second *)
(* selector of every invariant built for P, applied to the view starting   *)
(* at a CallEntered(P) event, returns the nested-operation set of that     *)
(* invocation. (Stated of the well-formed traces.)                         *)
(***************************************************************************)
C6_ExtractorOfOwnParent ==
    (/\ inferOut.status = "returned"
     /\ WellFormed(trace)
     /\ Cardinality(Parents(trace)) >= 2) =>
        \A inv \in BagToSet(inferOut.all_invariants) :
            \A i \in Invocations(trace, inv.built_for) :
                ApplySelector(inv.param_selectors[2], SliceFrom(trace, i))
                    = ReturnedSet(NestedOperationSet(trace, i))

(***************************************************************************)
(* C8: determinism. Two calls of infer on the same trace return the same   *)
(* invariants (same parent and child, extractor bound to the same parent), *)
(* whatever the order in which the operation names were enumerated.        *)
(* (Stated of the well-formed traces.)                                     *)
(***************************************************************************)
C8_InferDeterministic ==
    (/\ inferPrev.status # "idle" /\ inferOut.status # "idle"
     /\ WellFormed(trace)) =>
        /\ inferPrev.status = inferOut.status
        /\ inferPrev.all_invariants = inferOut.all_invariants

(***************************************************************************)
(* Specification of evaluate: any argument list, beside any small trace.   *)
(***************************************************************************)
InitEvaluate ==
    /\ trace \in SeqsUpTo(EventsOver({<<1, 1>>}), 1)
    /\ value_group \in SeqsUpTo(PyValues, MaxArgs)
    /\ evalOut = Idle
    /\ NoInfer /\ NoScan /\ NoFlatten /\ NoTracer /\ NoHooks

CallEvaluate ==
    /\ evalOut = Idle
    /\ evalOut' = evaluate(value_group)
    /\ UNCHANGED <<trace, hookVars, flattenVars, tracerVars, inferVars, value_group, scanVars>>

NextEvaluate == CallEvaluate

SpecEvaluate == InitEvaluate /\ [][NextEvaluate]_vars

(***************************************************************************)
(* C7: evaluate([f, S]) returns true exactly when f is in S, for a string  *)
(* f and a set S of strings, and the call leaves the trace as it was; on   *)
(* an argument of any other shape it fails instead of returning a boolean. *)
(* (The class of the error raised is not modelled: only that one is.)      *)
(***************************************************************************)
WellShaped(args) ==
    Len(args) = 2 /\ args[1].type = "str" /\ args[2].type = "set"

ScanEvents ==
    {CallEvent(ty, fn, "1", <<1, 1>>) : ty \in {PRE, POST}, fn \in Functions}
    \cup {StateEvent(<<1, 1>>)}

\* the trace of scenario B: entries of a, b, a, a, b (a is train_step and b
\* is forward), and its selector list [is_entered(a), is_entered(b)]
ScenarioB ==
    << CallEvent(PRE, "train_step", "1", <<1, 1>>),
       CallEvent(PRE, "forward", "1", <<1, 1>>),
       CallEvent(PRE, "train_step", "1", <<1, 1>>),
       CallEvent(PRE, "train_step", "1", <<1, 1>>),
       CallEvent(PRE, "forward", "1", <<1, 1>>) >>

ScenarioB_Selectors == << IsEntered("train_step"), IsEntered("forward") >>

InitScan ==
    /\ \/ trace \in SeqsUpTo(ScanEvents, MaxEvents)
       \/ trace = ScenarioB
    /\ param_selectors \in SeqsUpTo(Selectors, MaxSelectors)
    /\ curr_param_selector = 0
    /\ group = <<>>
    /\ groups = <<>>
    /\ pos = 0
    /\ pc = "idle"
    /\ NoInfer /\ NoEvaluate /\ NoFlatten /\ NoTracer /\ NoHooks

NextScan ==
    \/ ScanStart
    \/ ScanRestart
    \/ ScanLiteral
    \/ ScanExtract
    \/ ScanPass
    \/ ScanReturn

SpecScan == InitScan /\ [][NextScan]_vars

(***************************************************************************)
(* C9: when the cursor is exhausted at an event e, the scanner emits the   *)
(* accumulated group, resets the accumulator, restarts the cursor at the   *)
(* first selector and examines e against it in the same step: when the     *)
(* first selector matches e, e is the first element of the next group.     *)
(***************************************************************************)
C9_SameEventReexamined ==
    [][(pc = "loop" /\ pos < Len(trace) /\ curr_param_selector = 0) =>
          /\ groups' = Append(groups, group)
          /\ (/\ Callable(param_selectors[1])
              /\ Matches(param_selectors[1], trace[pos + 1]))
             => /\ group' = <<Element(trace[pos + 1], pos + 1, 1)>>
                /\ curr_param_selector' = NextSelector(param_selectors, 1)
          /\ (/\ Callable(param_selectors[1])
              /\ ~Matches(param_selectors[1], trace[pos + 1]))
             => /\ group' = <<>>
                /\ curr_param_selector' = 1]_vars

(***************************************************************************)
(* C10: when the current selector is a literal, the scanner appends it to  *)
(* the accumulator once and moves the cursor to the next selector: no      *)
(* group ever holds two elements given by the same literal selector.       *)
(***************************************************************************)
C10_LiteralAppendedOnceAndAdvances ==
    [][(/\ pc = "loop" /\ pos < Len(trace)
        /\ curr_param_selector # 0
        /\ ~Callable(param_selectors[curr_param_selector])) =>
          /\ group' = Append(group,
                             Element([literal |->
                                        param_selectors[curr_param_selector].arg],
                                     0, curr_param_selector))
          /\ curr_param_selector'
                = NextSelector(param_selectors, curr_param_selector)]_vars

(***************************************************************************)
(* C11: scenario B.  With the selectors [is_entered(a), is_entered(b)] and *)
(* the entries a, b, a, a, b, scan_to_groups returns exactly two groups,   *)
(* each an (a-entry, b-entry) pair, and exactly one a-entry is in no group.*)
(***************************************************************************)
RowsGrouped == {groups[g][k].row : g \in DOMAIN groups, k \in 1..2}

C12_LeftOverGroup ==
    [][(pc = "loop" /\ pc' # "loop")
       => /\ pc' = "returned"
          /\ Len(group) = Len(param_selectors)
                => groups' = Append(groups, group)
          /\ (0 < Len(group) /\ Len(group) < Len(param_selectors))
                => groups' = groups]_vars

C12_Witness ==
    /\ pc = "returned"
    /\ 0 < Len(group) /\ Len(group) < Len(param_selectors)
    /\ Len(groups) = 1
    /\ Len(groups[1]) = Len(param_selectors)

(***************************************************************************)
(* C20: fixed arity.  Every group scan_to_groups returns is as long as the *)
(* selector list, and its k-th element was produced by the k-th selector.  *)
(***************************************************************************)
C20_FixedArity ==
    pc = "returned"
    => \A g \in DOMAIN groups :
          /\ Len(groups[g]) = Len(param_selectors)
          /\ \A k \in DOMAIN groups[g] : groups[g][k].selector = k

(***************************************************************************)
(* C13: the state-change events, which carry no function, add nothing to   *)
(* the nested-operation set of the span they lie in, so that infer builds  *)
(* no hypothesis whose child is null.                                      *)
(***************************************************************************)
C13_NullFunctionExcluded ==
    (inferOut.status = "returned" /\ WellFormed(trace))
    => \A key \in HypothesisKeys(inferOut) : key[2] # None

(***************************************************************************)
(* C15: when the first event of the view is not a CallEntered event of the *)
(* target operation, events_scanner gives no nested-operation set,         *)
(* whatever the rest of the view holds.  As claimed, it fails with an      *)
(* error raised; as amended, it returns None without raising.              *)
(***************************************************************************)
NotACallEntry ==
    /\ scanOut.status = "done"
    /\ Len(trace) > 0
    /\ ~IsCallEntered(trace, 1, scanOut.parent_func_name)

C16_SingleInvocationAllPositive ==
    (inferOut.status = "returned" /\ WellFormed(trace))
    => \A key \in HypothesisKeys(inferOut) :
          Cardinality(Invocations(trace, key[1])) = 1
          => LET h == inferOut.hypothesis[key[1]][key[2]]
             IN  /\ Len(h.positive_examples) = 1
                 /\ h.positive_examples[1] \in Invocations(trace, key[1])
                 /\ h.negative_examples = <<>>

C16_Witness ==
    /\ inferOut.status = "returned" /\ WellFormed(trace)
    /\ \E key \in HypothesisKeys(inferOut) :
          /\ Cardinality(Invocations(trace, key[1])) = 1
          /\ key[2] \in Functions \ {key[1]}
          /\ inferOut.hypothesis[key[1]][key[2]].positive_examples # <<>>

(***************************************************************************)
(* C17: an operation name that appears in the trace only on events that    *)
(* are not CallEntered events is never a parent: infer returns no          *)
(* invariant whose parent it is, and calls events_scanner no time for it.  *)
(***************************************************************************)
NeverEntered(events) ==
    {op \in Functions :
        /\ \E k \in 1..Len(events) : events[k].function = op
        /\ Invocations(events, op) = {}}

C17_NeverEnteredNeverParent ==
    inferOut.status # "idle"
    => \A op \in NeverEntered(trace) :
          /\ \A call \in inferOut.scanned : call[1] # op
          /\ \A key \in HypothesisKeys(inferOut) : key[1] # op
          /\ \A inv \in DOMAIN inferOut.all_invariants : inv.built_for # op

\* infer returns invariants of another parent while such a name is there
C17_Witness ==
    /\ inferOut.status = "returned"
    /\ NeverEntered(trace) # {}
    /\ inferOut.scanned # {}
    /\ HypothesisKeys(inferOut) # {}

(***************************************************************************)
(* C14: when the one event that shares the correlation id of a CallEntered *)
(* event has another thread_id or another process_id, events_scanner on    *)
(* the view that begins at that entry fails with the cross-context error   *)
(* and gives no set, and infer on such a trace raises and returns no       *)
(* invariants.                                                             *)
(***************************************************************************)
CrossContextEntry(events, i) ==
    /\ events[i].type = PRE
    /\ \E j \in 1..Len(events) :
          /\ OthersWithId(events, i) = {j}
          /\ \/ events[j].thread_id # events[i].thread_id
             \/ events[j].process_id # events[i].process_id

C14_CrossContextRejected ==
    /\ (/\ scanOut.status = "done"
        /\ IsCallEntered(trace, 1, scanOut.parent_func_name)
        /\ CrossContextEntry(trace, 1))
       => scanOut.result = Raised("cross-context-correlation")
    /\ (/\ inferOut.status # "idle"
        /\ \E i \in 1..Len(trace) : CrossContextEntry(trace, i))
       => /\ inferOut.status = "raised"
          /\ inferOut.all_invariants = EmptyBag

\* the exit is of the same thread and of another process
C14_Witness ==
    /\ scanOut.status = "done"
    /\ Len(trace) = 3
    /\ IsCallEntered(trace, 1, scanOut.parent_func_name)
    /\ OthersWithId(trace, 1) = {3}
    /\ trace[3].thread_id = trace[1].thread_id
    /\ trace[3].process_id # trace[1].process_id
    /\ scanOut.result.status = "raised"
    /\ inferOut.status = "raised"
    /\ inferOut.error = "cross-context-correlation"

(***************************************************************************)
(* unnest_all(df, separator): the flattening of the struct columns.        *)
(* A schema is the sequence of the columns, each a name and a dtype; a     *)
(* Struct dtype holds the schema of its fields.                            *)
(***************************************************************************)
MaxDepth == 2

Int64 == [base |-> "Int64", fields |-> <<>>]
Struct(fields) == [base |-> "Struct", fields |-> fields]
Column(name, dtype) == [name |-> name, dtype |-> dtype]

\* column and field names; the second field name is the empty string
ColumnName == "a"
DottedName == "a.b"
FieldNames == <<"b", "">>
Separators == {".", "/"}

\* f.strip() == "", of the names used here
IsBlank(f) == f \in {"", " "}

RECURSIVE SubSchemas(_, _)
\* the schemas whose columns are some of names, in that order, with dtypes of D
SubSchemas(names, D) ==
    IF names = <<>> THEN {<<>>}
    ELSE LET rest == SubSchemas(Tail(names), D)
         IN  rest \cup {<<Column(Head(names), d)>> \o r : d \in D, r \in rest}

RECURSIVE DTypes(_)
\* the dtypes whose structs are nested depth deep at most
DTypes(depth) ==
    {Int64} \cup
    IF depth = 0 THEN {}
    ELSE {Struct(f) : f \in SubSchemas(FieldNames, DTypes(depth - 1))}

RECURSIVE _unnest(_, _)
\* for name, dtype in schema.items(): the leaves, each with its path
_unnest(schema, path) ==
    IF schema = <<>> THEN <<>>
    ELSE LET name == Head(schema).name
             dtype == Head(schema).dtype
         IN  (IF dtype.base = "Struct"
              THEN _unnest(dtype.fields, Append(path, name))
              ELSE << [path |-> Append(path, name), dtype |-> dtype] >>)
             \o _unnest(Tail(schema), path)

RECURSIVE Join(_, _)
\* separator.join(names)
Join(sep, names) ==
    IF names = <<>> THEN ""
    ELSE IF Len(names) = 1 THEN names[1]
    ELSE names[1] \o sep \o Join(sep, Tail(names))

\* not_empty_fields = [f for f in fields if f.strip() != ""]; name = ...
AliasName(path, sep) ==
    LET col == Head(path)
        NotBlank(f) == ~IsBlank(f)
        not_empty_fields == SelectSeq(Tail(path), NotBlank)
    IN  IF Len(not_empty_fields) > 0
        THEN Join(sep, <<col>> \o not_empty_fields)
        ELSE col

\* yield expr.alias(name): expr is pl.col(col).struct[field]..., kept as its path
_unnest_all(schema, sep) ==
    LET leaves == _unnest(schema, <<>>)
    IN  [i \in DOMAIN leaves |->
            [name |-> AliasName(leaves[i].path, sep),
             dtype |-> leaves[i].dtype,
             expr |-> leaves[i].path]]

\* df.select(exprs): two expressions of the same output name are refused
unnest_all(schema, sep) ==
    LET exprs == _unnest_all(schema, sep)
    IN  IF \E i, j \in DOMAIN exprs : i # j /\ exprs[i].name = exprs[j].name
        THEN [status |-> "raised", error |-> "DuplicateError", columns |-> <<>>]
        ELSE [status |-> "ok", error |-> "", columns |-> exprs]

\* df.schema of a table select has returned
SchemaOf(columns) ==
    [i \in DOMAIN columns |-> Column(columns[i].name, columns[i].dtype)]

(***************************************************************************)
(* Specification of unnest_all: a table with a column a nested to MaxDepth *)
(* at most, beside or not a flat column whose name is a.b; unnest_all is   *)
(* applied to it, and then to the table it returned.                       *)
(***************************************************************************)
InitFlatten ==
    /\ df \in {a \o b : a \in SubSchemas(<<ColumnName>>, DTypes(MaxDepth)),
                         b \in SubSchemas(<<DottedName>>, {Int64})}
    /\ separator \in Separators
    /\ unnestOut = Idle
    /\ trace = <<>>
    /\ NoInfer /\ NoEvaluate /\ NoScan /\ NoTracer /\ NoHooks

CallUnnestAll ==
    /\ unnestOut = Idle
    /\ unnestOut' = [status |-> "done", result |-> unnest_all(df, separator)]
    /\ UNCHANGED <<trace, hookVars, inferVars, evalVars, scanVars, tracerVars, df, separator>>

CallUnnestAllAgain ==
    /\ unnestOut.status = "done"
    /\ unnestOut.result.status = "ok"
    /\ unnestOut' =
          [status |-> "twice", result |-> unnestOut.result,
           again |-> unnest_all(SchemaOf(unnestOut.result.columns), separator)]
    /\ UNCHANGED <<trace, hookVars, inferVars, evalVars, scanVars, tracerVars, df, separator>>

NextFlatten == CallUnnestAll \/ CallUnnestAllAgain

SpecFlatten == InitFlatten /\ [][NextFlatten]_vars

(***************************************************************************)
(* C18: unnest_all is total and idempotent on the tables nested to a       *)
(* bounded depth: it succeeds, no column of its result is a struct, the    *)
(* name of each leaf is the path of the leaf joined by the separator, and  *)
(* a table that is already flat comes back with the same columns and       *)
(* values.                                                                 *)
(***************************************************************************)
IsFlat(schema) == \A i \in DOMAIN schema : schema[i].dtype.base # "Struct"

SameTable(schema, columns) ==
    /\ DOMAIN columns = DOMAIN schema
    /\ \A i \in DOMAIN schema :
          /\ columns[i].name = schema[i].name
          /\ columns[i].dtype = schema[i].dtype
          /\ columns[i].expr = <<schema[i].name>>

C18_UnnestAllTotalIdempotent ==
    unnestOut.status # "idle"
    => /\ unnestOut.result.status = "ok"
       /\ \A i \in DOMAIN unnestOut.result.columns :
             /\ unnestOut.result.columns[i].dtype.base # "Struct"
             /\ unnestOut.result.columns[i].name
                   = Join(separator, unnestOut.result.columns[i].expr)
       /\ IsFlat(df) => SameTable(df, unnestOut.result.columns)
       /\ unnestOut.status = "twice"
            => /\ unnestOut.again.status = "ok"
               /\ SameTable(SchemaOf(unnestOut.result.columns),
                            unnestOut.again.columns)

(***************************************************************************)
(* The tracer: global_wrapper(original_function, *args, **kwargs), called  *)
(* by the threads of one process, the wrapped functions calling wrapped    *)
(* functions in their turn.                                                *)
(***************************************************************************)
MaxCalls == 3
MaxNesting == 2

POST_EXCEPTION == "function_call (post) (exception)"

Threads == {1, 2}
\* os.getpid()
ProcessId == 1

\* the ways original_function(*args, **kwargs) ends, as the wrapper sees
\* them: it returns, it raises an Exception, or it raises a BaseException
\* that is not an Exception (KeyboardInterrupt, SystemExit, GeneratorExit)
Exc(kind, name) == [kind |-> kind, name |-> name]
Raises ==
    {Exc("Exception", "ValueError"), Exc("BaseException", "KeyboardInterrupt")}

\* what original_function gives when it returns: result
Results == {"loss", "logits"}
Returned(result) == [kind |-> "returned", name |-> result]

\* no exception is on its way up
NoException == [kind |-> "none", name |-> "none"]

\* str(uuid.uuid4()): an id no call before has drawn
FreshUuid(n) == ToString(n + 1)

Frame(func_id, thread_id, func_name) ==
    [uuid |-> func_id, thread_id |-> thread_id, process_id |-> ProcessId,
     function |-> func_name]

FrameEvent(ty, frame) ==
    CallEvent(ty, frame.function, frame.uuid,
              <<frame.thread_id, frame.process_id>>)

\* an exit event logged only when the function returns
LogOnExit_ReturnOnly(frame, how) ==
    IF how = "returned" THEN << FrameEvent(POST, frame) >> ELSE <<>>

\* what the wrapper logs once original_function has ended: `except Exception`
\* logs the exception event and raises again, anything else passes through
\* unlogged, and after a return the post event is logged
LogOnExit(frame, how) ==
    IF how = "returned" THEN << FrameEvent(POST, frame) >>
    ELSE IF how = "Exception" THEN << FrameEvent(POST_EXCEPTION, frame) >>
    ELSE <<>>

\* the wrapper gives None whatever original_function returned
WrapperYields_NoResult(gave) ==
    IF gave.kind = "returned" THEN Returned(None) ELSE gave

\* what the wrapper gives to its caller: `return result`, `raise e`, or the
\* exception it did not catch
WrapperYields(gave) == gave

\* the frame of the oldest call under way
Top_Oldest(t) == stack[t][1]

Top(t) == stack[t][Len(stack[t])]
Pop(t) == [stack EXCEPT ![t] = SubSeq(@, 1, Len(@) - 1)]

\* a call that has ended: what original_function gave, what the wrapper gave
Ended(frame, gave) ==
    [uuid |-> frame.uuid, thread_id |-> frame.thread_id, how |-> gave.kind,
     gave |-> gave, yielded |-> WrapperYields(gave)]

\* lines 16-43: the ids are taken and the pre event is logged; then
\* original_function runs
WrapperEnter(t, f) ==
    /\ pending[t] = NoException
    /\ Len(stack[t]) < MaxNesting
    /\ n_calls < MaxCalls
    /\ LET frame == Frame(FreshUuid(n_calls), t, f)
       IN  /\ log' = Append(log, FrameEvent(PRE, frame))
           /\ stack' = [stack EXCEPT ![t] = Append(@, frame)]
    /\ n_calls' = n_calls + 1
    /\ UNCHANGED <<trace, hookVars, inferVars, evalVars, scanVars, flattenVars,
                   pending, finished>>

\* lines 46, 61-72: original_function returns, the post event is logged
FunctionReturns(t, result) ==
    /\ pending[t] = NoException
    /\ stack[t] # <<>>
    /\ log' = log \o LogOnExit(Top(t), "returned")
    /\ stack' = Pop(t)
    /\ finished' = finished \cup {Ended(Top(t), Returned(result))}
    /\ UNCHANGED <<trace, hookVars, inferVars, evalVars, scanVars, flattenVars,
                   pending, n_calls>>

\* lines 46-59: original_function raises, of itself or because a call it
\* made raised and it did not catch; the exception leaves the wrapper
FunctionRaises(t, exc) ==
    /\ pending[t] \in {NoException, exc}
    /\ stack[t] # <<>>
    /\ log' = log \o LogOnExit(Top(t), exc.kind)
    /\ stack' = Pop(t)
    /\ pending' = [pending EXCEPT ![t] = WrapperYields(exc)]
    /\ finished' = finished \cup {Ended(Top(t), exc)}
    /\ UNCHANGED <<trace, hookVars, inferVars, evalVars, scanVars, flattenVars, n_calls>>

\* the exception is caught by the code the wrapper was called from
ExceptionCaught(t) ==
    /\ pending[t] # NoException
    /\ pending' = [pending EXCEPT ![t] = NoException]
    /\ UNCHANGED <<trace, hookVars, inferVars, evalVars, scanVars, flattenVars,
                   log, stack, finished, n_calls>>

InitTracer ==
    /\ log = <<>>
    /\ stack = [t \in Threads |-> <<>>]
    /\ pending = [t \in Threads |-> NoException]
    /\ finished = {}
    /\ n_calls = 0
    /\ trace = <<>>
    /\ NoInfer /\ NoEvaluate /\ NoScan /\ NoFlatten /\ NoHooks

\* the program traced: its threads call train_step, and a wrapped function
\* under way calls forward
Callees(t) == IF stack[t] = <<>> THEN {"train_step"} ELSE {"forward"}

NextTracer ==
    \E t \in Threads :
        \/ \E f \in Callees(t) : WrapperEnter(t, f)
        \/ \E result \in Results : FunctionReturns(t, result)
        \/ \E exc \in Raises : FunctionRaises(t, exc)
        \/ ExceptionCaught(t)

SpecTracer == InitTracer /\ [][NextTracer]_vars

(***************************************************************************)
(* C19: once a call of global_wrapper has ended, the log holds exactly two *)
(* events with its uuid, the pre event and after it one post event or one  *)
(* exception event, with the same uuid, thread_id and process_id, however  *)
(* the calls of the threads interleave.  As claimed, for every way the     *)
(* wrapped function ends; as amended, when it returns or raises an         *)
(* Exception, a call ended by another BaseException leaving its pre event  *)
(* alone.                                                                  *)
(***************************************************************************)
EventsOf(uuid) == SelectSeq(log, LAMBDA e : e.uuid = uuid)

PairLogged(call) ==
    LET es == EventsOf(call.uuid)
    IN  /\ Len(es) = 2
        /\ es[1].type = PRE
        /\ es[2].type \in {POST, POST_EXCEPTION}
        /\ es[2].thread_id = es[1].thread_id
        /\ es[2].process_id = es[1].process_id
        /\ es[1].thread_id = call.thread_id

C19_PairForEveryEndedCall ==
    \A call \in finished : PairLogged(call)

C19_PairUnlessBaseException ==
    \A call \in finished :
        IF call.how = "BaseException"
        THEN Len(EventsOf(call.uuid)) = 1 /\ EventsOf(call.uuid)[1].type = PRE
        ELSE /\ PairLogged(call)
             /\ (EventsOf(call.uuid)[2].type = POST) = (call.how = "returned")

\* a call that returned on one thread, around a call on the other thread
\* that raised an Exception
C19_Witness ==
    \E c1, c2 \in finished :
        /\ c1.how = "returned" /\ c2.how = "Exception"
        /\ c1.thread_id # c2.thread_id
        /\ \E i, j, k, l \in DOMAIN log :
              /\ i < j /\ j < k /\ k < l
              /\ log[i].uuid = c1.uuid /\ log[l].uuid = c1.uuid
              /\ log[j].uuid = c2.uuid /\ log[k].uuid = c2.uuid

(***************************************************************************)
(* C22: global_wrapper is transparent.  When the wrapped function returns  *)
(* a value the wrapper gives that value, the post event being logged by    *)
(* then; when it raises an Exception the wrapper gives that exception, the *)
(* exception event being logged by then; and no call has both a post and   *)
(* an exception event in the log.                                          *)
(***************************************************************************)
TypesOf(uuid) == [k \in DOMAIN EventsOf(uuid) |-> EventsOf(uuid)[k].type]

C22_WrapperTransparent ==
    /\ \A call \in finished :
          /\ call.gave.kind = "returned"
                => /\ call.yielded = call.gave
                   /\ TypesOf(call.uuid) = <<PRE, POST>>
          /\ call.gave.kind = "Exception"
                => /\ call.yielded = call.gave
                   /\ TypesOf(call.uuid) = <<PRE, POST_EXCEPTION>>
    /\ \A k, l \in DOMAIN log :
          (log[k].type = POST /\ log[l].type = POST_EXCEPTION)
          => log[k].uuid # log[l].uuid

\* a value returned, and one exception that went up through two wrappers
C22_Witness ==
    \E c1, c2, c3 \in finished :
        /\ c1.yielded = Returned("logits")
        /\ c2.uuid # c3.uuid /\ c2.thread_id = c3.thread_id
        /\ c2.yielded = Exc("Exception", "ValueError")
        /\ c3.yielded = c2.yielded
        /\ pending[c2.thread_id] = c2.yielded

(***************************************************************************)
(* C27: the events of each thread are properly nested in the log, however  *)
(* the threads interleave.  The [pre, exit] intervals of two calls of one  *)
(* thread are disjoint or one strictly contains the other, and the exit of *)
(* a call is logged only after the calls it started on its thread have     *)
(* ended, their exits before its own.                                      *)
(***************************************************************************)
PrePos(uuid) == CHOOSE k \in DOMAIN log : log[k].uuid = uuid /\ log[k].type = PRE
HasExit(uuid) == \E k \in DOMAIN log : log[k].uuid = uuid /\ log[k].type # PRE
ExitPos(uuid) == CHOOSE k \in DOMAIN log : log[k].uuid = uuid /\ log[k].type # PRE
ThreadOf(uuid) == log[PrePos(uuid)].thread_id
Logged == {log[k].uuid : k \in DOMAIN log}

C27_PerThreadNesting ==
    \A a, b \in Logged :
        (a # b /\ ThreadOf(a) = ThreadOf(b) /\ HasExit(a))
        => /\ HasExit(b)
              => \/ ExitPos(a) < PrePos(b)
                 \/ ExitPos(b) < PrePos(a)
                 \/ PrePos(a) < PrePos(b) /\ ExitPos(b) < ExitPos(a)
                 \/ PrePos(b) < PrePos(a) /\ ExitPos(a) < ExitPos(b)
           /\ (PrePos(a) < PrePos(b) /\ PrePos(b) < ExitPos(a))
              => /\ \E call \in finished : call.uuid = b
                 /\ HasExit(b) => ExitPos(b) < ExitPos(a)

\* a call inside a call on one thread, events of the other thread between
C27_Witness ==
    \E a, b, c \in Logged :
        /\ ThreadOf(a) = ThreadOf(b) /\ ThreadOf(c) # ThreadOf(a)
        /\ HasExit(a) /\ HasExit(b) /\ HasExit(c)
        /\ PrePos(a) < PrePos(c) /\ PrePos(c) < PrePos(b)
        /\ ExitPos(b) < ExitPos(c) /\ ExitPos(c) < ExitPos(a)

(***************************************************************************)
(* C23: for every hypothesis (P, C) infer builds on a well-formed trace,   *)
(* the positive and the negative examples together are as many as the      *)
(* CallEntered(P) events of the trace, and there is at least one positive  *)
(* example.                                                                *)
(***************************************************************************)
C23_ExamplesCountInvocations ==
    (inferOut.status = "returned" /\ WellFormed(trace))
    => \A key \in HypothesisKeys(inferOut) :
          LET h == inferOut.hypothesis[key[1]][key[2]]
          IN  /\ Len(h.positive_examples) + Len(h.negative_examples)
                    = Cardinality(Invocations(trace, key[1]))
              /\ Len(h.positive_examples) >= 1

\* a hypothesis of a parent entered twice, with an example of each kind
C23_Witness ==
    /\ inferOut.status = "returned" /\ WellFormed(trace)
    /\ \E key \in HypothesisKeys(inferOut) :
          /\ Cardinality(Invocations(trace, key[1])) = 2
          /\ Len(inferOut.hypothesis[key[1]][key[2]].positive_examples) = 1
          /\ Len(inferOut.hypothesis[key[1]][key[2]].negative_examples) = 1

(***************************************************************************)
(* C24: a set events_scanner returns for a view that begins at a           *)
(* CallEntered(P) event holds P itself; so, for every parent P entered at  *)
(* least once, infer returns an invariant (P contains P), whose hypothesis *)
(* has no negative example.                                                *)
(***************************************************************************)
C24_ParentContainsItself ==
    /\ (scanOut.status = "done" /\ scanOut.result.status = "set")
       => /\ IsCallEntered(trace, 1, scanOut.parent_func_name)
          /\ scanOut.parent_func_name \in scanOut.result.names
    /\ inferOut.status = "returned"
       => \A P \in Parents(trace) :
             /\ <<P, P>> \in HypothesisKeys(inferOut)
             /\ inferOut.hypothesis[P][P].negative_examples = <<>>
             /\ inferOut.hypothesis[P][P].positive_examples # <<>>
             /\ \E inv \in DOMAIN inferOut.all_invariants :
                   /\ inv = inferOut.hypothesis[P][P].invariant
                   /\ inv.param_selectors[1] = [literal |-> P]
                   /\ inv.built_for = P

\* a parent that has another child too
C24_Witness ==
    /\ scanOut.status = "done" /\ scanOut.result.status = "set"
    /\ inferOut.status = "returned"
    /\ \E P \in Parents(trace) :
          /\ P = scanOut.parent_func_name
          /\ \E C \in Functions \ {P} : <<P, C>> \in HypothesisKeys(inferOut)

(***************************************************************************)
(* C25: span monotonicity.  In a well-formed trace, when an invocation of  *)
(* C has its entry and its exit inside the span [i, j) of an invocation of *)
(* P, on the thread and process of that span, the nested-operation set of  *)
(* the invocation of C is a subset of that of the invocation of P.         *)
(***************************************************************************)
\* the row of the exit of the entry at row i, in a well-formed trace
ExitOf(events, i) == CHOOSE j \in 1..Len(events) : IsMatchingExit(events, i, j)

InsideSpan(events, i, ic) ==
    /\ events[i].type = PRE /\ events[ic].type = PRE
    /\ i <= ic /\ ExitOf(events, ic) < ExitOf(events, i)
    /\ events[ic].thread_id = events[i].thread_id
    /\ events[ic].process_id = events[i].process_id

C25_SpanMonotonicity ==
    (inferOut.status = "returned" /\ WellFormed(trace))
    => \A i, ic \in 1..Len(trace) :
          InsideSpan(trace, i, ic)
          => /\ <<trace[i].function, i>> \in inferOut.scanned
             /\ <<trace[ic].function, ic>> \in inferOut.scanned
             /\ inferOut.child_func_names[<<trace[ic].function, ic>>]
                   \subseteq inferOut.child_func_names[<<trace[i].function, i>>]

\* an invocation of another operation inside, with a smaller set
C25_Witness ==
    /\ inferOut.status = "returned" /\ WellFormed(trace)
    /\ \E i, ic \in 1..Len(trace) :
          /\ InsideSpan(trace, i, ic)
          /\ trace[ic].function # trace[i].function
          /\ inferOut.child_func_names[<<trace[ic].function, ic>>]
                # inferOut.child_func_names[<<trace[i].function, i>>]

(***************************************************************************)
(* C26: with a selector list made of extractors only, the elements of the  *)
(* groups scan_to_groups returns, taken group after group and in selector  *)
(* order inside a group, come from events at strictly increasing           *)
(* positions of the trace: no event supplies two elements.                 *)
(***************************************************************************)
ExtractorsOnly(selectors) ==
    selectors # <<>> /\ \A k \in DOMAIN selectors : Callable(selectors[k])

\* element k of group g comes before element l of group h
Before(g, k, h, l) == g < h \/ (g = h /\ k < l)

MaxChecks == 3

\* the names of the parameters, in the order named_parameters() gives them
ParamNames == <<"weight", "bias">>

\* tensors, by their elements; nan is the element that is not a number
Tensors == {<<"0.0">>, <<"1.0">>, <<"nan">>}

\* the dicts of parameters a model can have
StateDicts ==
    UNION {[N -> Tensors] : N \in SUBSET {ParamNames[k] : k \in DOMAIN ParamNames}}

\* torch.equal(a, b): same size and same elements; nan is equal to nothing
torch_equal(a, b) ==
    /\ Len(a) = Len(b)
    /\ \A k \in DOMAIN a : a[k] = b[k] /\ a[k] # "nan"

\* {name: param.clone().detach() for name, param in self.model.named_parameters()}
_get_state_copy(parameters) == parameters

\* json.dumps({"thread_id": ..., "process_id": ..., "type": ..., "variable": name})
VariableChange(name) ==
    [type |-> STATE_CHANGE, variable |-> name, thread_id |-> 1,
     process_id |-> ProcessId]

RECURSIVE HasChangedLoop(_, _, _)
\* for name in self.current_state: ... (the names are those left to go through)
HasChangedLoop(names, snapshot, parameters) ==
    IF names = <<>>
    THEN [status |-> "returned", value |-> FALSE, logged |-> <<>>,
          current_state |-> _get_state_copy(parameters)]
    ELSE IF Head(names) \notin DOMAIN snapshot
    THEN HasChangedLoop(Tail(names), snapshot, parameters)
    ELSE IF Head(names) \notin DOMAIN parameters
    THEN [status |-> "raised", value |-> FALSE, logged |-> <<>>,
          current_state |-> snapshot]
    ELSE IF ~torch_equal(snapshot[Head(names)], parameters[Head(names)])
    THEN [status |-> "returned", value |-> TRUE,
          logged |-> << VariableChange(Head(names)) >>,
          current_state |-> _get_state_copy(parameters)]
    ELSE HasChangedLoop(Tail(names), snapshot, parameters)

has_changed(snapshot, parameters) ==
    HasChangedLoop(ParamNames, snapshot, parameters)

\* StateVarObserver(model): the snapshot is taken
InitObserver ==
    /\ model \in StateDicts
    /\ current_state = _get_state_copy(model)
    /\ hasChangedOut = [status |-> "idle", value |-> FALSE, calls |-> 0]
    /\ updated = FALSE
    /\ trace = <<>>
    /\ NoInfer /\ NoEvaluate /\ NoScan /\ NoFlatten /\ NoTracer
    /\ NoInstrument /\ NoConstruct

\* the training writes another tensor into a parameter
UpdateParameter(name, tensor) ==
    /\ name \in DOMAIN model
    /\ tensor # model[name]
    /\ model' = [model EXCEPT ![name] = tensor]
    /\ updated' = TRUE
    /\ UNCHANGED <<trace, inferVars, evalVars, scanVars, flattenVars, tracerVars,
                   instrumentVars, constructVars, current_state, hasChangedOut>>

\* a parameter is registered on the model (register_parameter)
RegisterParameter(name, tensor) ==
    /\ name \notin DOMAIN model
    /\ model' = [n \in DOMAIN model \cup {name} |->
                    IF n = name THEN tensor ELSE model[n]]
    /\ updated' = TRUE
    /\ UNCHANGED <<trace, inferVars, evalVars, scanVars, flattenVars, tracerVars,
                   instrumentVars, constructVars, current_state, hasChangedOut>>

\* a parameter is deleted from the model (delattr, pruning)
DeleteParameter(name) ==
    /\ name \in DOMAIN model
    /\ model' = [n \in DOMAIN model \ {name} |-> model[n]]
    /\ updated' = TRUE
    /\ UNCHANGED <<trace, inferVars, evalVars, scanVars, flattenVars, tracerVars,
                   instrumentVars, constructVars, current_state, hasChangedOut>>

\* observer.has_changed()
CallHasChanged ==
    /\ hasChangedOut.calls < MaxChecks
    /\ LET out == has_changed(current_state, model)
       IN  /\ hasChangedOut' = [status |-> out.status, value |-> out.value,
                                calls |-> hasChangedOut.calls + 1]
           /\ log' = log \o out.logged
           /\ current_state' = out.current_state
    /\ updated' = FALSE
    /\ UNCHANGED <<trace, inferVars, evalVars, scanVars, flattenVars,
                   instrumentVars, constructVars, stack, pending, finished,
                   n_calls, model>>

NextObserver ==
    \/ \E k \in DOMAIN ParamNames, tensor \in Tensors :
          \/ UpdateParameter(ParamNames[k], tensor)
          \/ RegisterParameter(ParamNames[k], tensor)
    \/ \E k \in DOMAIN ParamNames : DeleteParameter(ParamNames[k])
    \/ CallHasChanged

SpecObserver == InitObserver /\ [][NextObserver]_vars

(***************************************************************************)
(* C21: has_changed returns true if and only if some parameter of the      *)
(* model differs from the snapshot; after the call the snapshot is the     *)
(* model's parameters; a call with no update of the model since the call   *)
(* before returns false and logs no state_variable_change event.           *)
(***************************************************************************)
C21_HasChangedIffDiffers ==
    [][(hasChangedOut'.calls # hasChangedOut.calls)
       => /\ hasChangedOut'.status = "returned"
          /\ hasChangedOut'.value = (model # current_state)
          /\ current_state' = model'
          /\ (hasChangedOut.calls > 0 /\ ~updated)
                => hasChangedOut'.value = FALSE /\ log' = log]_vars

(***************************************************************************)
(* instrumentor: _instrument() goes through the attributes of a module or  *)
(* class, wraps the functions and recurses into the modules and classes of *)
(* the root package.  One step of the model is one iteration of the loop   *)
(* of the innermost call, or the return of that call.                      *)
(***************************************************************************)
MaxInstruments == 2
MaxFrames == 3

\* the objects _instrument can be given, and what they are
Targets == {"pkg", "Net", "numpy"}

IsModule(obj) == obj \in {"pkg", "numpy"}

IsClass(obj) == obj = "Net"

IsFunction(obj) == obj = "f"

\* attr.__name__ of a module, attr.__module__ of a class, by its components
ModuleName(obj) ==
    CASE obj = "pkg" -> <<"pkg">>
      [] obj = "Net" -> <<"pkg", "models">>
      [] obj = "numpy" -> <<"numpy">>

\* target.__name__.split(".")[0]
root_module(target) == ModuleName(target)[1]

\* name.startswith(root), for a root that is one whole component
startswith(name, root) == name[1] = root

modules_to_skip == {<<"torch", "fx">>}

\* dir(pymodule) is sorted by name; the attributes are named after their objects
DirOrder == <<"Net", "f", "numpy", "pkg">>

Dir(objs) == SelectSeq(DirOrder, LAMBDA obj : obj \in objs)

\* the attributes the objects can have: any references, cycles included
ObjectGraphs ==
    {[pkg |-> Dir(p), Net |-> Dir(c), numpy |-> Dir(n)] :
        p \in SUBSET {"Net", "f", "numpy", "pkg"},
        c \in SUBSET {"Net", "f", "numpy", "pkg"},
        n \in SUBSET {"Net", "f"}}

\* if pymodule in instrumented_modules or pymodule in skipped_modules
AlreadySeen_Never(pymodule) == FALSE

AlreadySeen(pymodule) ==
    pymodule \in instrumented_modules \/ pymodule \in skipped_modules

InstrumentCall(pymodule) == [pymodule |-> pymodule, i |-> 1, count_wrapped |-> 0]

TopFrame == frames[Len(frames)]

\* the attribute the loop of the innermost call is at
Attr == attrs[TopFrame.pymodule][TopFrame.i]

InLoop ==
    /\ frames # <<>>
    /\ TopFrame.i <= Len(attrs[TopFrame.pymodule])

\* continue: the loop goes to the next attribute, count_wrapped grows by n
Continue(n) ==
    [frames EXCEPT ![Len(frames)] =
        [@ EXCEPT !.i = @ + 1, !.count_wrapped = @ + n]]

InitInstrument ==
    /\ attrs \in ObjectGraphs
    /\ instrumented_modules = {}
    /\ skipped_modules = {}
    /\ frames = <<>>
    /\ traversals = [obj \in Targets |-> 0]
    /\ instrumentOut = [status |-> "idle", target |-> None, root_module |-> None,
                        before |-> {}, count |-> 0, n |-> 0]
    /\ trace = <<>>
    /\ NoInfer /\ NoEvaluate /\ NoScan /\ NoFlatten /\ NoTracer
    /\ NoObserver /\ NoConstruct

\* instrumentor(target).instrument(): the first lines of _instrument(target)
CallInstrument(target) ==
    /\ frames = <<>>
    /\ instrumentOut.n < MaxInstruments
    /\ IF AlreadySeen(target)
       THEN /\ instrumentOut' = [status |-> "returned", target |-> target,
                                 root_module |-> root_module(target),
                                 before |-> instrumented_modules, count |-> 0,
                                 n |-> instrumentOut.n + 1]
            /\ UNCHANGED <<instrumented_modules, frames, traversals>>
       ELSE /\ instrumentOut' = [status |-> "running", target |-> target,
                                 root_module |-> root_module(target),
                                 before |-> instrumented_modules, count |-> 0,
                                 n |-> instrumentOut.n + 1]
            /\ instrumented_modules' = instrumented_modules \cup {target}
            /\ frames' = << InstrumentCall(target) >>
            /\ traversals' = [traversals EXCEPT ![target] = @ + 1]
    /\ UNCHANGED <<trace, inferVars, evalVars, scanVars, flattenVars, tracerVars,
                   observerVars, constructVars, attrs, skipped_modules>>

\* the attribute is a function: it is wrapped and counted
WrapFunction ==
    /\ InLoop
    /\ IsFunction(Attr)
    /\ frames' = Continue(1)
    /\ UNCHANGED <<trace, inferVars, evalVars, scanVars, flattenVars, tracerVars,
                   observerVars, constructVars, attrs, instrumented_modules,
                   skipped_modules, traversals, instrumentOut>>

\* the attribute is a module that is not gone into
SkipModule ==
    /\ InLoop
    /\ IsModule(Attr)
    /\ \/ ModuleName(Attr) \in modules_to_skip
       \/ Attr \in skipped_modules
       \/ ~startswith(ModuleName(Attr), instrumentOut.root_module)
    /\ skipped_modules' =
          IF ModuleName(Attr) \in modules_to_skip \/ Attr \in skipped_modules
          THEN skipped_modules
          ELSE skipped_modules \cup {Attr}
    /\ frames' = Continue(0)
    /\ UNCHANGED <<trace, inferVars, evalVars, scanVars, flattenVars, tracerVars,
                   observerVars, constructVars, attrs, instrumented_modules,
                   traversals, instrumentOut>>

\* the attribute is a class of another package
SkipClass ==
    /\ InLoop
    /\ IsClass(Attr)
    /\ ~startswith(ModuleName(Attr), instrumentOut.root_module)
    /\ frames' = Continue(0)
    /\ UNCHANGED <<trace, inferVars, evalVars, scanVars, flattenVars, tracerVars,
                   observerVars, constructVars, attrs, instrumented_modules,
                   skipped_modules, traversals, instrumentOut>>

\* count_wrapped += self._instrument(attr, depth + 1), up to the loop of the
\* inner call, or to its return of 0
Recurse ==
    /\ InLoop
    /\ \/ /\ IsModule(Attr)
          /\ ModuleName(Attr) \notin modules_to_skip
          /\ Attr \notin skipped_modules
       \/ IsClass(Attr)
    /\ startswith(ModuleName(Attr), instrumentOut.root_module)
    /\ IF AlreadySeen(Attr)
       THEN /\ frames' = Continue(0)
            /\ UNCHANGED <<instrumented_modules, traversals>>
       ELSE /\ Len(frames) < MaxFrames
            /\ instrumented_modules' = instrumented_modules \cup {Attr}
            /\ frames' = Append(Continue(0), InstrumentCall(Attr))
            /\ traversals' = [traversals EXCEPT ![Attr] = @ + 1]
    /\ UNCHANGED <<trace, inferVars, evalVars, scanVars, flattenVars, tracerVars,
                   observerVars, constructVars, attrs, skipped_modules,
                   instrumentOut>>

\* return count_wrapped
ReturnCount ==
    /\ frames # <<>>
    /\ TopFrame.i > Len(attrs[TopFrame.pymodule])
    /\ IF Len(frames) = 1
       THEN /\ frames' = <<>>
            /\ instrumentOut' = [instrumentOut EXCEPT
                                    !.status = "returned",
                                    !.count = TopFrame.count_wrapped]
       ELSE /\ frames' = [SubSeq(frames, 1, Len(frames) - 1) EXCEPT
                             ![Len(frames) - 1].count_wrapped =
                                 @ + TopFrame.count_wrapped]
            /\ UNCHANGED instrumentOut
    /\ UNCHANGED <<trace, inferVars, evalVars, scanVars, flattenVars, tracerVars,
                   observerVars, constructVars, attrs, instrumented_modules,
                   skipped_modules, traversals>>

\* the steps of a call of instrument() that is under way
RunInstrument ==
    \/ WrapFunction
    \/ SkipModule
    \/ SkipClass
    \/ Recurse
    \/ ReturnCount

NextInstrument ==
    \/ \E target \in Targets : CallInstrument(target)
    \/ RunInstrument

SpecInstrument == InitInstrument /\ [][NextInstrument]_vars

\* a call that is under way goes on: the interpreter runs it to its end
FairSpecInstrument == SpecInstrument /\ WF_vars(RunInstrument)

\* the functions among the attributes of the objects of a set
RECURSIVE CountFunctions(_)
CountFunctions(objs) ==
    IF objs = {} THEN 0
    ELSE LET obj == CHOOSE o \in objs : TRUE
         IN  Len(SelectSeq(attrs[obj], IsFunction)) + CountFunctions(objs \ {obj})

(***************************************************************************)
(* C28: instrument() terminates on every graph of modules and classes,     *)
(* cycles included; every module or class is traversed at most once in the *)
(* process; a target that is already in instrumented_modules or in         *)
(* skipped_modules is not traversed again and adds nothing to the count,   *)
(* also when a second instrumentor is given it: the count a call returns   *)
(* is the number of functions of the objects it traversed for the first    *)
(* time.                                                                   *)
(***************************************************************************)
C28_TraversedOnceAndTerminates ==
    /\ [](\A obj \in Targets : traversals[obj] <= 1)
    /\ []((instrumentOut.status = "returned")
            => instrumentOut.count =
                 CountFunctions(instrumented_modules \ instrumentOut.before))
    /\ [][\A target \in Targets :
            (CallInstrument(target) /\ AlreadySeen(target))
               => /\ traversals' = traversals
                  /\ instrumentOut'.status = "returned"
                  /\ instrumentOut'.count = 0]_vars
    /\ ((instrumentOut.status = "running") ~> (instrumentOut.status = "returned"))

\* a second instrumentor was given a target the first one had traversed, in
\* a graph with a cycle, and has returned
C28_Witness ==
    /\ instrumentOut.n = 2
    /\ instrumentOut.status = "returned"
    /\ instrumentOut.target \in instrumentOut.before
    /\ (\E k \in DOMAIN attrs["Net"] : attrs["Net"][k] = "pkg")
    /\ (\E k \in DOMAIN attrs["pkg"] : attrs["pkg"][k] = "Net")
    /\ traversals["pkg"] = 1
    /\ traversals["Net"] = 1

(***************************************************************************)
(* init_wrapper: the construction of one object of a class of an           *)
(* inheritance chain, some of whose __init__ methods the instrumentor has  *)
(* wrapped.  One step is the call of one __init__, or its return through   *)
(* its wrappers.                                                           *)
(***************************************************************************)
MaxWraps == 2

\* the classes of the chain, base class first
Chain == <<"Module", "Linear", "LoRALinear">>

\* the base classes of the k-th class of the chain
Ancestors(k) == 1..(k - 1)

\* json.dumps({"type": "post_init_hook", "class": ..., "args": args, "kwargs": kwargs})
PostInitHook(cls) == [type |-> "post_init_hook", class |-> Chain[cls]]

RECURSIVE WrappedInit(_, _, _, _, _, _)
\* what is left of wrapped_init once original_init has returned, for each of
\* the layers wrappers around the method, the innermost first
WrappedInit(layers, cls, serializable, has_dict, ran, logged) ==
    IF layers = 0
    THEN [status |-> "returned", error |-> "", hook_ran |-> ran, logged |-> logged]
    ELSE IF ran
    THEN WrappedInit(layers - 1, cls, serializable, has_dict, ran, logged)
    ELSE IF ~serializable
    THEN [status |-> "raised", error |-> "TypeError", hook_ran |-> ran,
          logged |-> logged]
    ELSE IF ~has_dict
    THEN [status |-> "raised", error |-> "AttributeError", hook_ran |-> ran,
          logged |-> Append(logged, PostInitHook(cls))]
    ELSE WrappedInit(layers - 1, cls, serializable, has_dict, TRUE,
                     Append(logged, PostInitHook(cls)))

\* a call of the __init__ of a class, with arguments json can or cannot dump
InitCall(cls, serializable) ==
    [cls |-> cls, serializable |-> serializable, called_super |-> FALSE]

TopInit == init_stack[Len(init_stack)]

\* the instrumentor has wrapped the __init__ of some classes, some of them
\* more than once (a class met twice, a method inherited from a wrapped one)
InitConstruct ==
    /\ init_wraps \in [DOMAIN Chain -> 0..MaxWraps]
    /\ init_stack = <<>>
    /\ hook_ran = FALSE
    /\ hook_log = <<>>
    /\ constructOut = [status |-> "idle", error |-> "", cls |-> 0,
                       has_dict |-> TRUE, hooks_reached |-> 0]
    /\ trace = <<>>
    /\ NoInfer /\ NoEvaluate /\ NoScan /\ NoFlatten /\ NoTracer
    /\ NoObserver /\ NoInstrument

\* cls(*args): the __init__ of the class of the object is called
Construct(cls, serializable, has_dict) ==
    /\ constructOut.status = "idle"
    /\ constructOut' = [constructOut EXCEPT !.status = "running", !.cls = cls,
                                            !.has_dict = has_dict]
    /\ init_stack' = << InitCall(cls, serializable) >>
    /\ UNCHANGED <<trace, inferVars, evalVars, scanVars, flattenVars, tracerVars,
                   observerVars, instrumentVars, hook_ran, hook_log, init_wraps>>

\* original_init calls the __init__ of a base class
CallSuperInit(base, serializable) ==
    /\ init_stack # <<>>
    /\ ~TopInit.called_super
    /\ base \in Ancestors(TopInit.cls)
    /\ init_stack' = Append([init_stack EXCEPT ![Len(init_stack)].called_super = TRUE],
                            InitCall(base, serializable))
    /\ UNCHANGED <<trace, inferVars, evalVars, scanVars, flattenVars, tracerVars,
                   observerVars, instrumentVars, hook_ran, hook_log, init_wraps,
                   constructOut>>

\* original_init raises: the exception leaves every __init__ under way
OriginalInitRaises ==
    /\ init_stack # <<>>
    /\ init_stack' = <<>>
    /\ constructOut' = [constructOut EXCEPT !.status = "raised",
                                            !.error = "ValueError"]
    /\ UNCHANGED <<trace, inferVars, evalVars, scanVars, flattenVars, tracerVars,
                   observerVars, instrumentVars, hook_ran, hook_log, init_wraps>>

\* original_init returns, and the wrappers around it run their hooks
OriginalInitReturns ==
    /\ init_stack # <<>>
    /\ LET out == WrappedInit(init_wraps[TopInit.cls], constructOut.cls,
                              TopInit.serializable, constructOut.has_dict,
                              hook_ran, hook_log)
           reached == constructOut.hooks_reached
                         + IF init_wraps[TopInit.cls] > 0 THEN 1 ELSE 0
       IN  /\ hook_ran' = out.hook_ran
           /\ hook_log' = out.logged
           /\ IF out.status = "raised"
              THEN /\ init_stack' = <<>>
                   /\ constructOut' = [constructOut EXCEPT
                                          !.status = "raised",
                                          !.error = out.error,
                                          !.hooks_reached = reached]
              ELSE /\ init_stack' = SubSeq(init_stack, 1, Len(init_stack) - 1)
                   /\ constructOut' = [constructOut EXCEPT
                                          !.status = IF Len(init_stack) = 1
                                                     THEN "returned" ELSE @,
                                          !.hooks_reached = reached]
    /\ UNCHANGED <<trace, inferVars, evalVars, scanVars, flattenVars, tracerVars,
                   observerVars, instrumentVars, init_wraps>>

NextConstruct ==
    \/ \E cls \in DOMAIN Chain, serializable \in BOOLEAN, has_dict \in BOOLEAN :
          Construct(cls, serializable, has_dict)
    \/ \E base \in DOMAIN Chain, serializable \in BOOLEAN :
          CallSuperInit(base, serializable)
    \/ OriginalInitRaises
    \/ OriginalInitReturns

SpecConstruct == InitConstruct /\ [][NextConstruct]_vars

(***************************************************************************)
(* C29: when the construction of an object is over and none of its own     *)
(* __init__ methods raised, and at least one wrapped __init__ ran, the     *)
(* post_init_hook record has been logged exactly once for the object.      *)
(***************************************************************************)
C29_HookLoggedExactlyOnce ==
    (/\ constructOut.status \in {"returned", "raised"}
     /\ constructOut.error # "ValueError"
     /\ constructOut.hooks_reached >= 1)
       => Len(hook_log) = 1

=============================================================================
